---- MODULE Spec2Model ----
(***************************************************************************)
(* A model of the SEO analyzer: the keyword inserter (insertKeyword), the  *)
(* score calculator (calculateScore), the content filter                   *)
(* (isMeaningfulContent) and the request handler (POST) of                 *)
(* src/lib/insertKeywords.ts.                                              *)
(*                                                                         *)
(* A JavaScript string is a sequence of one-character strings:             *)
(* "a b." is <<"a", " ", "b", ".">>; its characters are those of U+0000 to *)
(* U+00FF, and U+FEFF.  A JavaScript number is an IEEE 754 double          *)
(* [s |-> sign, m |-> significand, e |-> exponent], and its arithmetic     *)
(* rounds as the double's does: 1.25 is Quot(5, 4).  An object             *)
(* Record<string, number> is the sequence of its entries                   *)
(* [k |-> key, w |-> weight] in Object.keys order.                         *)
(***************************************************************************)
EXTENDS Integers, Sequences, FiniteSets

VARIABLES
  pc,         \* position of the computation under way
  text,       \* the text argument (a string)
  keyword,    \* the keyword argument of insertKeyword (a string)
  keywords,   \* the keyword map argument (entries in key order)
  topics,     \* the topic map argument (entries in key order)
  result,     \* insertKeyword's return value
  result2,    \* insertKeyword's return value on its own result
  score,      \* calculateScore's return value
  meaningful, \* isMeaningfulContent's return value
  body,       \* POST: the parsed request body
  apiKey,     \* POST: whether process.env.TWINWORD_API_KEY is set
  data,       \* POST: the extraction service's parsed reply
  calls,      \* POST: the collaborators called so far, in order
  response    \* POST: the response returned

vars == <<pc, text, keyword, keywords, topics, result, result2, score,
          meaningful, body, apiKey, data, calls, response>>

(***************************************************************************)
(* Bounds of the model.                                                    *)
(***************************************************************************)
MaxTextLen == 3
MaxKwLen == 2
MaxWordLen == 4
MaxKeywords == 5
MaxRepeats == 8
MaxDistinct == 6

(***************************************************************************)
(* Strings.                                                                *)
(***************************************************************************)
\* All strings over alphabet of length at most n.
StringsUpTo(alphabet, n) == UNION {[1..m -> alphabet] : m \in 0..n}

\* String.prototype.includes: needle occurs in s as a contiguous substring.
includes(s, needle) ==
  \E i \in 0..(Len(s) - Len(needle)) : SubSeq(s, i + 1, i + Len(needle)) = needle

\* The index of the first separator character at or after i, Len(s)+1 if none.
NextDot(s, i) ==
  IF \E j \in i..Len(s) : s[j] = "."
  THEN CHOOSE j \in i..Len(s) : s[j] = "." /\ \A k \in i..(j - 1) : s[k] # "."
  ELSE Len(s) + 1

\* String.prototype.split('.'): the pieces between the '.' characters, from
\* index i on.  The result is never empty: "" splits into <<"">>.
RECURSIVE splitDotFrom(_, _)
splitDotFrom(s, i) ==
  LET e == NextDot(s, i)
      piece == SubSeq(s, i, e - 1)
  IN IF e > Len(s) THEN <<piece>> ELSE <<piece>> \o splitDotFrom(s, e + 1)

splitDot(s) == splitDotFrom(s, 1)

\* A join with ". " for '.'.
RECURSIVE joinDotSpace(_)
joinDotSpace(parts) ==
  IF Len(parts) = 0 THEN <<>>
  ELSE IF Len(parts) = 1 THEN parts[1]
  ELSE parts[1] \o <<".", " ">> \o joinDotSpace(Tail(parts))

\* Array.prototype.join('.').
RECURSIVE joinDot(_)
joinDot(parts) ==
  IF Len(parts) = 0 THEN <<>>
  ELSE IF Len(parts) = 1 THEN parts[1]
  ELSE parts[1] \o <<".">> \o joinDot(Tail(parts))

(***************************************************************************)
(* insertKeyword (lines 1-11).                                             *)
(***************************************************************************)
\* insertKeyword without the guard of line 3.
insertKeyword_NoGuard(t, kw) ==
  LET sentences == splitDot(t) IN
  IF Len(sentences) = 0 THEN kw \o <<".", " ">> \o t
  ELSE joinDot([sentences EXCEPT ![1] = @ \o <<" ">> \o kw])

\* insertKeyword with line 6 testing for at most one sentence.
insertKeyword_OneSentence(t, kw) ==
  IF includes(t, kw) THEN t
  ELSE LET sentences == splitDot(t) IN
       IF Len(sentences) <= 1 THEN kw \o <<".", " ">> \o t
       ELSE joinDot([sentences EXCEPT ![1] = @ \o <<" ">> \o kw])

insertKeyword(t, kw) ==
  IF includes(t, kw) THEN t
  ELSE LET sentences == splitDot(t) IN
       IF Len(sentences) = 0 THEN kw \o <<".", " ">> \o t
       ELSE joinDot([sentences EXCEPT ![1] = @ \o <<" ">> \o kw])

(***************************************************************************)
(* Whitespace, trim and split(/\s+/).                                      *)
(***************************************************************************)
\* The whitespace of \s and of String.prototype.trim among the characters a
\* string of this module can hold (U+0000 to U+00FF, and U+FEFF): tab, line
\* feed, vertical tab (U+000B), form feed, carriage return, space, no-break
\* space (U+00A0) and the byte order mark (U+FEFF).
VerticalTab == ""
NoBreakSpace == " "
ByteOrderMark == "﻿"
IsSpace(c) ==
  c \in {"\t", "\n", VerticalTab, "\f", "\r", " ", NoBreakSpace, ByteOrderMark}

\* The index of the first whitespace character at or after i, Len(s)+1 if none.
NextSpace(s, i) ==
  IF \E j \in i..Len(s) : IsSpace(s[j])
  THEN CHOOSE j \in i..Len(s) : IsSpace(s[j]) /\ \A k \in i..(j - 1) : ~IsSpace(s[k])
  ELSE Len(s) + 1

\* The index of the first non-whitespace character at or after i, Len(s)+1 if none.
NextSolid(s, i) ==
  IF \E j \in i..Len(s) : ~IsSpace(s[j])
  THEN CHOOSE j \in i..Len(s) : ~IsSpace(s[j]) /\ \A k \in i..(j - 1) : IsSpace(s[k])
  ELSE Len(s) + 1

\* The index of the last non-whitespace character of s, 0 if none.
LastSolid(s) ==
  IF \E j \in 1..Len(s) : ~IsSpace(s[j])
  THEN Len(s) - (CHOOSE k \in 0..(Len(s) - 1) :
                   ~IsSpace(s[Len(s) - k]) /\ \A m \in 0..(k - 1) : IsSpace(s[Len(s) - m]))
  ELSE 0

\* String.prototype.trim: s without its leading and trailing whitespace.
trim(s) == SubSeq(s, NextSolid(s, 1), LastSolid(s))

\* String.prototype.split(/\s+/): the pieces between the maximal runs of
\* whitespace, from index i on.  Leading or trailing whitespace gives an empty
\* first or last piece, and "" splits into <<"">>.
RECURSIVE splitWsFrom(_, _)
splitWsFrom(s, i) ==
  LET e == NextSpace(s, i)
      piece == SubSeq(s, i, e - 1)
  IN IF e > Len(s) THEN <<piece>>
     ELSE <<piece>> \o splitWsFrom(s, NextSolid(s, e))

splitWs(s) == splitWsFrom(s, 1)

(***************************************************************************)
(* Numbers.  A JavaScript number is an IEEE 754 double: sign s, a 53-bit   *)
(* significand m and an exponent e, of value s * m * 2^e; zero has the     *)
(* empty significand.  A significand, and every intermediate integer, is a *)
(* sequence of 14-bit limbs, least significant first, without leading zero *)
(* limbs.                                                                  *)
(***************************************************************************)
LimbBits == 14
Base == 2^LimbBits

Abs(a) == IF a < 0 THEN -a ELSE a
Limb(a, i) == IF i >= 1 /\ i <= Len(a) THEN a[i] ELSE 0

BTrim(a) ==
  IF \A i \in 1..Len(a) : a[i] = 0 THEN <<>>
  ELSE SubSeq(a, 1, CHOOSE i \in 1..Len(a) : a[i] # 0 /\ \A j \in (i + 1)..Len(a) : a[j] = 0)

\* The limbs of the number whose i-th column holds cols[i], a carry c coming in.
RECURSIVE Carry(_, _, _)
Carry(cols, i, c) ==
  IF i > Len(cols) THEN (IF c = 0 THEN <<>> ELSE <<c % Base>> \o Carry(cols, i, c \div Base))
  ELSE <<(cols[i] + c) % Base>> \o Carry(cols, i + 1, (cols[i] + c) \div Base)

BNat(k) == BTrim(<<k % Base, (k \div Base) % Base, k \div (Base * Base)>>)
BInt(a) == Limb(a, 1) + Base * Limb(a, 2) + Base * Base * Limb(a, 3)

BAdd(a, b) ==
  LET n == IF Len(a) > Len(b) THEN Len(a) ELSE Len(b)
  IN Carry([i \in 1..n |-> Limb(a, i) + Limb(b, i)], 1, 0)

\* a - b, for a >= b.
BSub(a, b) == BTrim(Carry([i \in 1..Len(a) |-> a[i] - Limb(b, i)], 1, 0))

\* a * b, for a of at most four limbs.
BMul(a, b) ==
  BTrim(Carry([k \in 1..(Len(a) + Len(b)) |->
                 Limb(a, 1) * Limb(b, k) + Limb(a, 2) * Limb(b, k - 1)
                   + Limb(a, 3) * Limb(b, k - 2) + Limb(a, 4) * Limb(b, k - 3)], 1, 0))

BLt(a, b) ==
  \/ Len(a) < Len(b)
  \/ /\ Len(a) = Len(b)
     /\ \E i \in 1..Len(a) : a[i] < b[i] /\ \A j \in (i + 1)..Len(a) : a[j] = b[j]

BitLen(a) ==
  IF a = <<>> THEN 0
  ELSE (Len(a) - 1) * LimbBits
         + (CHOOSE k \in 1..LimbBits : 2^(k - 1) <= a[Len(a)] /\ a[Len(a)] < 2^k)

\* a * 2^n.
Shl(a, n) ==
  Carry([i \in 1..(Len(a) + n \div LimbBits) |->
           IF i <= n \div LimbBits THEN 0 ELSE a[i - n \div LimbBits] * 2^(n % LimbBits)], 1, 0)

\* The integer part of a / 2^n.
Shr(a, n) ==
  LET q == n \div LimbBits
      r == n % LimbBits
  IN BTrim([i \in 1..(Len(a) - q) |->
              Limb(a, i + q) \div 2^r + (Limb(a, i + q + 1) % 2^r) * 2^(LimbBits - r)])

\* The quotient and the remainder of a by d, for 0 < d < Base, from limb i down.
RECURSIVE DivFrom(_, _, _, _)
DivFrom(a, d, i, rem) ==
  IF i = 0 THEN [q |-> <<>>, r |-> rem]
  ELSE LET t == rem * Base + a[i]
           rest == DivFrom(a, d, i - 1, t % d)
       IN [q |-> rest.q \o <<t \div d>>, r |-> rest.r]

BDiv(a, d) == LET x == DivFrom(a, d, Len(a), 0) IN [q |-> BTrim(x.q), r |-> x.r]

Zero == [s |-> 1, m |-> <<>>, e |-> 0]

\* The exponents of the least and of the greatest significand bit's weight:
\* a finite double is s * m * 2^e with MinExp <= e <= MaxExp and m < 2^53, and
\* m >= 2^52 unless e = MinExp (a subnormal).  Infinity is written with the
\* exponent above MaxExp, which orders it above every finite double.
MinExp == -1074
MaxExp == 971
Infinity(s) == [s |-> s, m |-> <<0, 0, 0, 2^10>>, e |-> MaxExp + 1]
IsInfinite(x) == x.e > MaxExp
Finite(s, m, e) ==
  IF m = <<>> THEN Zero
  ELSE IF e > MaxExp THEN Infinity(s)
  ELSE [s |-> s, m |-> m, e |-> e]

\* The double nearest to s * (M + t) * 2^e, a tie going to the even
\* significand; sticky says that the tail t, 0 <= t < 1, is not zero.  The
\* result is a subnormal or zero on underflow, and an infinity on overflow.
Pack(s, M, e, sticky) ==
  LET len == BitLen(M)
      r == IF len - 53 > MinExp - e THEN len - 53 ELSE MinExp - e
  IN IF len = 0 THEN Zero
     ELSE IF r <= 0 THEN Finite(s, Shl(M, -r), e + r)
     ELSE LET q == Shr(M, r)
              guard == Limb(Shr(M, r - 1), 1) % 2 = 1
              rest == sticky \/ Shl(Shr(M, r - 1), r - 1) # M
              up == guard /\ (rest \/ Limb(q, 1) % 2 = 1)
              q2 == IF up THEN BAdd(q, <<1>>) ELSE q
          IN IF BitLen(q2) > 53 THEN Finite(s, Shr(q2, 1), e + r + 1)
             ELSE Finite(s, q2, e + r)

\* The double of an integer k, and the quotient n / d of two integers,
\* 0 < d < 2^14, rounded to the nearest double: the value of the division
\* n / d, and the number that the decimal literal of n / d denotes.
Num(k) == Pack(IF k < 0 THEN -1 ELSE 1, BNat(Abs(k)), 0, FALSE)
Quot(n, d) ==
  LET x == BDiv(Shl(BNat(Abs(n)), 5 * LimbBits), d)
  IN Pack(IF n < 0 THEN -1 ELSE 1, x.q, -(5 * LimbBits), x.r # 0)

DNeg(x) == IF x.m = <<>> THEN x ELSE [x EXCEPT !.s = -x.s]

\* The products and sums of calculateScore never are 0 * Infinity or
\* Infinity - Infinity, so that NaN has no representation here.
DMul(x, y) ==
  IF x.m = <<>> \/ y.m = <<>> THEN Zero
  ELSE IF IsInfinite(x) \/ IsInfinite(y) THEN Infinity(x.s * y.s)
  ELSE Pack(x.s * y.s, BMul(x.m, y.m), x.e + y.e, FALSE)

DAdd(x, y) ==
  IF x.m = <<>> THEN y
  ELSE IF y.m = <<>> THEN x
  ELSE IF IsInfinite(x) THEN x
  ELSE IF IsInfinite(y) THEN y
  ELSE LET e == IF x.e < y.e THEN x.e ELSE y.e
           X == Shl(x.m, x.e - e)
           Y == Shl(y.m, y.e - e)
       IN IF x.s = y.s THEN Pack(x.s, BAdd(X, Y), e, FALSE)
          ELSE IF X = Y THEN Zero
          ELSE IF BLt(Y, X) THEN Pack(x.s, BSub(X, Y), e, FALSE)
          ELSE Pack(y.s, BSub(Y, X), e, FALSE)

DSub(x, y) == DAdd(x, DNeg(y))

MagLt(x, y) ==
  IF y.m = <<>> THEN FALSE
  ELSE IF x.m = <<>> THEN TRUE
  ELSE x.e < y.e \/ (x.e = y.e /\ BLt(x.m, y.m))

DLt(x, y) ==
  IF x.s # y.s THEN x.s < y.s
  ELSE IF x.s = 1 THEN MagLt(x, y) ELSE MagLt(y, x)

DMin(x, y) == IF DLt(y, x) THEN y ELSE x
DMax(x, y) == IF DLt(x, y) THEN y ELSE x

\* Math.floor and Math.round (the nearest integer, a tie going up): the
\* result is a double, and x itself when x has no fraction bits.
MathFloor(x) ==
  IF x.m = <<>> \/ x.e >= 0 THEN x
  ELSE IF x.s = 1 THEN Pack(1, Shr(x.m, -x.e), 0, FALSE)
  ELSE Pack(-1, Shr(BAdd(x.m, BSub(Shl(<<1>>, -x.e), <<1>>)), -x.e), 0, FALSE)

MathRound(x) ==
  IF x.m = <<>> \/ x.e >= 0 THEN x
  ELSE IF -x.e > 53 THEN Zero
  ELSE LET half == Shl(<<1>>, -x.e - 1)
       IN IF x.s = 1 THEN Pack(1, Shr(BAdd(x.m, half), -x.e), 0, FALSE)
          ELSE IF BLt(x.m, half) THEN Zero
          ELSE Pack(-1, Shr(BAdd(BSub(x.m, half), BSub(Shl(<<1>>, -x.e), <<1>>)), -x.e),
                    0, FALSE)

\* The integer that a double without fraction, below 2^31 in magnitude, is.
DInt(x) ==
  IF x.m = <<>> THEN 0
  ELSE IF x.e >= 0 THEN x.s * BInt(Shl(x.m, x.e))
  ELSE x.s * BInt(Shr(x.m, -x.e))

\* Math.max(...xs, 0).
RECURSIVE MaxWithZero(_)
MaxWithZero(xs) ==
  IF Len(xs) = 0 THEN Zero ELSE DMax(Head(xs), MaxWithZero(Tail(xs)))

\* Array.prototype.sort((a, b) => b - a): descending, by insertion.
RECURSIVE InsertDesc(_, _)
InsertDesc(x, sorted) ==
  IF Len(sorted) = 0 THEN <<x>>
  ELSE IF DLt(Head(sorted), x) THEN <<x>> \o sorted
  ELSE <<Head(sorted)>> \o InsertDesc(x, Tail(sorted))

RECURSIVE SortDesc(_)
SortDesc(xs) ==
  IF Len(xs) = 0 THEN <<>> ELSE InsertDesc(xs[Len(xs)], SortDesc(SubSeq(xs, 1, Len(xs) - 1)))

(***************************************************************************)
(* calculateScore (lines 210-257).                                         *)
(***************************************************************************)
\* Object.values(topics).
TopicScores(tp) == [i \in 1..Len(tp) |-> tp[i].w]

\* Lines 220-221: keywords per 100 words, capped at 20.
keywordDensity(keywordCount, wordCount) ==
  DMin(DMul(Quot(keywordCount, wordCount), Num(100)), Num(20))

\* Lines 229-233.
lengthFactor(textLength) ==
  IF textLength < 100 THEN Quot(6, 10)
  ELSE IF textLength < 200 THEN Quot(8, 10)
  ELSE IF textLength < 500 THEN Quot(9, 10)
  ELSE Num(1)

\* The keyword factor with its penalty on many keywords instead of few.
keywordFactor_Inverted(keywordCount) ==
  IF keywordCount > 3 THEN Quot(7, 10)
  ELSE IF keywordCount > 1 THEN Quot(85, 100)
  ELSE Num(1)

\* Lines 235-238.
keywordFactor(keywordCount) ==
  IF keywordCount < 3 THEN Quot(7, 10)
  ELSE IF keywordCount < 5 THEN Quot(85, 100)
  ELSE Num(1)

\* Lines 240-248.
diversityFactor(topicScores) ==
  IF Len(topicScores) > 1
  THEN LET sortedScores == SortDesc(topicScores)
           topTwo == SubSeq(sortedScores, 1, 2)
       IN IF Len(topTwo) > 1 /\ DLt(DMul(topTwo[1], Quot(7, 10)), topTwo[2])
          THEN Quot(11, 10)
          ELSE Num(1)
  ELSE Num(1)

\* Lines 223-227 and 250-251: the score before the diminishing-returns step.
rawScore(keywordCount, topicScores, textLength, wordCount) ==
  LET maxTopicScore == MaxWithZero(topicScores)
      topicRelevance == DMul(maxTopicScore, Num(100))
      base == DAdd(DMul(keywordDensity(keywordCount, wordCount), Num(2)),
                   DMul(topicRelevance, Quot(8, 10)))
  IN DMul(DMul(DMul(base, lengthFactor(textLength)), keywordFactor(keywordCount)),
          diversityFactor(topicScores))

\* Line 254: diminishing returns above 85.
diminish(s) ==
  IF DLt(Num(85), s) THEN DAdd(Num(85), DMul(DSub(s, Num(85)), Quot(3, 10))) ELSE s

\* Line 256 with Math.min(1000, ...).
clamp_LooseUpperBound(s) == DInt(DMin(Num(1000), DMax(Zero, MathRound(s))))

\* Line 256: Math.min(100, Math.max(0, Math.round(score))).
clamp(s) == DInt(DMin(Num(100), DMax(Zero, MathRound(s))))

\* Line 218 without the word count.
degenerate_NoWordCount(keywordCount, textLength, wordCount) ==
  textLength < 20 \/ keywordCount = 0

\* Line 218: very short or empty content.
degenerate(keywordCount, textLength, wordCount) ==
  textLength < 20 \/ keywordCount = 0 \/ wordCount < 5

calculateScore(kws, tp, t) ==
  LET keywordCount == Len(kws)
      topicScores == TopicScores(tp)
      trimmed == trim(t)
      textLength == Len(trimmed)
      wordCount == Len(splitWs(trimmed))
  IN IF degenerate(keywordCount, textLength, wordCount) THEN 0
     ELSE clamp(diminish(rawScore(keywordCount, topicScores, textLength, wordCount)))

(***************************************************************************)
(* isMeaningfulContent (lines 259-286).                                    *)
(***************************************************************************)
\* The letters that String.prototype.toLowerCase changes, among the
\* characters U+0000 to U+00FF, and what it changes them to: A to Z, and the
\* capital letters U+00C0 to U+00DE of Latin-1 (U+00D7, the multiplication
\* sign, is not a letter).
UpperLetters ==
  <<"A", "B", "C", "D", "E", "F", "G", "H", "I", "J", "K", "L", "M",
    "N", "O", "P", "Q", "R", "S", "T", "U", "V", "W", "X", "Y", "Z",
    "À", "Á", "Â", "Ã", "Ä", "Å", "Æ", "Ç", "È", "É", "Ê", "Ë", "Ì",
    "Í", "Î", "Ï", "Ð", "Ñ", "Ò", "Ó", "Ô", "Õ", "Ö", "Ø", "Ù", "Ú",
    "Û", "Ü", "Ý", "Þ">>
LowerLetters ==
  <<"a", "b", "c", "d", "e", "f", "g", "h", "i", "j", "k", "l", "m",
    "n", "o", "p", "q", "r", "s", "t", "u", "v", "w", "x", "y", "z",
    "à", "á", "â", "ã", "ä", "å", "æ", "ç", "è", "é", "ê", "ë", "ì",
    "í", "î", "ï", "ð", "ñ", "ò", "ó", "ô", "õ", "ö", "ø", "ù", "ú",
    "û", "ü", "ý", "þ">>

\* String.prototype.toLowerCase.
toLowerCase(s) ==
  [i \in 1..Len(s) |->
     IF \E j \in 1..Len(UpperLetters) : UpperLetters[j] = s[i]
     THEN LowerLetters[CHOOSE j \in 1..Len(UpperLetters) : UpperLetters[j] = s[i]]
     ELSE s[i]]

\* /^\d+$/.test(s).
IsDigit(c) == c \in {"0", "1", "2", "3", "4", "5", "6", "7", "8", "9"}
allDigits(s) == Len(s) > 0 /\ \A i \in 1..Len(s) : IsDigit(s[i])

\* Line 261.
commonWords ==
  {
    <<"t", "h", "e">>, <<"a", "n", "d">>, <<"f", "o", "r">>,
    <<"a", "r", "e">>, <<"b", "u", "t">>, <<"n", "o", "t">>,
    <<"y", "o", "u">>, <<"a", "l", "l">>, <<"c", "a", "n">>,
    <<"h", "a", "d">>, <<"h", "e", "r">>, <<"w", "a", "s">>,
    <<"o", "n", "e">>, <<"o", "u", "r">>, <<"o", "u", "t">>,
    <<"d", "a", "y">>, <<"g", "e", "t">>, <<"h", "a", "s">>,
    <<"h", "i", "m">>, <<"h", "i", "s">>, <<"h", "o", "w">>,
    <<"m", "a", "n">>, <<"n", "e", "w">>, <<"n", "o", "w">>,
    <<"o", "l", "d">>, <<"s", "e", "e">>, <<"t", "w", "o">>,
    <<"w", "a", "y">>, <<"w", "h", "o">>, <<"b", "o", "y">>,
    <<"d", "i", "d">>, <<"i", "t", "s">>, <<"l", "e", "t">>,
    <<"p", "u", "t">>, <<"s", "a", "y">>, <<"s", "h", "e">>,
    <<"t", "o", "o">>, <<"u", "s", "e">> }

LoremIpsum == <<"l", "o", "r", "e", "m", " ", "i", "p", "s", "u", "m">>
SampleText == <<"s", "a", "m", "p", "l", "e", " ", "t", "e", "x", "t">>
Placeholder == <<"p", "l", "a", "c", "e", "h", "o", "l", "d", "e", "r">>

\* Object.keys(kws).
Keys(kws) == [i \in 1..Len(kws) |-> kws[i].k]

\* Lines 272-276: the filter's test of one keyword.
isMeaningfulKeyword(kw) ==
  Len(kw) > 2 /\ toLowerCase(kw) \notin commonWords /\ ~allDigits(kw)

\* Line 283 with words.length >= 10.
isRepetitive_AtLeast10(words) ==
  LET uniqueWords == {words[i] : i \in 1..Len(words)}
      repetitionRatio == Quot(Cardinality(uniqueWords), Len(words))
  IN DLt(repetitionRatio, Quot(1, 2)) /\ Len(words) >= 10

\* Lines 278-283: too repetitive.
isRepetitive(words) ==
  LET uniqueWords == {words[i] : i \in 1..Len(words)}
      repetitionRatio == Quot(Cardinality(uniqueWords), Len(words))
  IN DLt(repetitionRatio, Quot(1, 2)) /\ Len(words) > 10

isMeaningfulContent(t, kws) ==
  LET lowerText == toLowerCase(t) IN
  IF includes(lowerText, LoremIpsum) \/ includes(lowerText, SampleText)
       \/ includes(lowerText, Placeholder) THEN FALSE
  ELSE IF Len(trim(t)) < 10 THEN FALSE
  ELSE LET meaningfulKeywords == SelectSeq(Keys(kws), isMeaningfulKeyword)
           words == splitWs(toLowerCase(t))
       IN IF isRepetitive(words) THEN FALSE
          ELSE Len(meaningfulKeywords) > 0

(***************************************************************************)
(* Inputs.                                                                 *)
(***************************************************************************)
Alphabet == {"a", "b", ".", " "}
InsertTexts == StringsUpTo(Alphabet, MaxTextLen)
InsertKeywords == StringsUpTo(Alphabet, MaxKwLen)

\* n words of len letters (the last one of len + extra), one whitespace
\* character between two words; padded, the text has whitespace around it and
\* two whitespace characters between two words.
WordText(n, len, extra, padded) ==
  LET gap == IF padded THEN 2 ELSE 1
      core == [i \in 1..(n * (len + gap) - gap + extra) |->
                 IF i <= n * (len + gap) - gap /\ (i - 1) % (len + gap) >= len
                 THEN (IF (i - 1) % (len + gap) = len THEN " " ELSE "\r")
                 ELSE "a"]
  IN IF padded
     THEN <<"\n", "\t", NoBreakSpace>> \o core \o <<"\f", VerticalTab, ByteOrderMark>>
     ELSE core

WordCounts == {1, 4, 5, 25, 40, 100}
ScoreTexts ==
  {<<>>, <<" ", " ">>} \cup
  {WordText(n, len, extra, FALSE) :
     n \in WordCounts, len \in 1..MaxWordLen, extra \in 0..1} \cup
  {WordText(n, len, 0, TRUE) : n \in WordCounts, len \in 1..MaxWordLen}

\* The keys and weights the keyword maps are made of, in Object.keys order
\* (an integer key comes first): a number, a stop word, a short word, then
\* ordinary words.
KeywordPool ==
  << [k |-> <<"1", "2", "3">>, w |-> Quot(1, 2)],
     [k |-> <<"T", "h", "e">>, w |-> Quot(9, 10)],
     [k |-> <<"a", "b">>, w |-> Quot(1, 4)],
     [k |-> <<"S", "e", "o">>, w |-> Quot(1, 2)],
     [k |-> <<"w", "e", "b">>, w |-> Quot(4, 5)],
     [k |-> <<"r", "a", "n", "k">>, w |-> Quot(1, 10)],
     [k |-> <<"b", "l", "o", "g">>, w |-> Quot(1, 20)],
     [k |-> <<"s", "i", "t", "e">>, w |-> Quot(1, 50)] >>

PoolSize == IF MaxKeywords < Len(KeywordPool) THEN MaxKeywords ELSE Len(KeywordPool)
KeywordMaps == {SubSeq(KeywordPool, 1, m) : m \in 0..PoolSize}

\* The topic maps.  0.8 * 0.7 is 0.5599999999999999 in double arithmetic, so
\* the weights 0.8 and 0.56 earn the diversity bonus; 1 and 0.7 do not.  The
\* weight 1e18 gives a score far above 2^53.
Topic(name, num, den) == [k |-> name, w |-> Quot(num, den)]
TopicMaps ==
  { <<>>,
    <<Topic(<<"a">>, 1, 4)>>,
    <<Topic(<<"a">>, 5, 4)>>,
    <<Topic(<<"a">>, 3, 1)>>,
    <<[k |-> <<"a">>, w |-> DMul(Num(1000000000), Num(1000000000))]>>,
    <<Topic(<<"a">>, 1, 1), Topic(<<"b">>, 7, 10)>>,
    <<Topic(<<"a">>, 56, 100), Topic(<<"b">>, 8, 10), Topic(<<"c">>, 1, 10)>>,
    <<Topic(<<"a">>, -1, 2), Topic(<<"b">>, -1, 4)>> }

(***************************************************************************)
(* The score calculator on its own: the inputs are drawn, calculateScore   *)
(* is applied, and it is applied again to another keyword map.             *)
(***************************************************************************)
NoBody == [json |-> FALSE, text |-> [tag |-> "absent"], insertKeyword |-> [tag |-> "absent"]]
Idle ==
  /\ body = NoBody /\ apiKey = FALSE /\ data = [tag |-> "none"]
  /\ calls = <<>> /\ response = [kind |-> "none"]

InitScore ==
  /\ pc = "start"
  /\ text \in ScoreTexts
  /\ keywords \in KeywordMaps
  /\ topics \in TopicMaps
  /\ keyword = <<>> /\ result = <<>> /\ result2 = <<>>
  /\ score = 0 /\ meaningful = FALSE
  /\ Idle

Score ==
  /\ pc = "start"
  /\ score' = calculateScore(keywords, topics, text)
  /\ pc' = "scored"
  /\ UNCHANGED <<text, keyword, keywords, topics, result, result2, meaningful,
                 body, apiKey, data, calls, response>>

Rescore ==
  /\ pc = "scored"
  /\ \E kws \in KeywordMaps :
       /\ keywords' = kws
       /\ score' = calculateScore(kws, topics, text)
  /\ UNCHANGED <<pc, text, keyword, topics, result, result2, meaningful,
                 body, apiKey, data, calls, response>>

NextScore == Score \/ Rescore
SpecScore == InitScore /\ [][NextScore]_vars

(***************************************************************************)
(* Properties of calculateScore.                                           *)
(***************************************************************************)
NonNegativeWeights(tp) == \A i \in 1..Len(tp) : ~DLt(tp[i].w, Zero)
TextLengthOf(t) == Len(trim(t))
WordCountOf(t) == Len(splitWs(trim(t)))
Scored == pc = "scored"

\* C1: for non-negative topic weights, the score returned is an integer in
\* [0, 100].
C1_ScoreInRange ==
  (Scored /\ NonNegativeWeights(topics)) => (score \in Int /\ score >= 0 /\ score <= 100)

\* C1 witness: a non-degenerate input whose unclamped result exceeds 100, and
\* one scored strictly between 0 and 100.
C1_Witness ==
  /\ Scored /\ NonNegativeWeights(topics)
  /\ ~degenerate(Len(keywords), TextLengthOf(text), WordCountOf(text))
  /\ DLt(Num(100), MathRound(diminish(rawScore(Len(keywords), TopicScores(topics),
                                               TextLengthOf(text), WordCountOf(text)))))
  /\ score = 100

\* C2: the score is exactly 0 whenever the trimmed text is shorter than 20
\* characters, or there is no keyword, or the trimmed text has fewer than 5
\* whitespace-separated words, whatever the topic weights.
C2_DegenerateIsZero ==
  (Scored /\ (TextLengthOf(text) < 20 \/ Len(keywords) = 0 \/ WordCountOf(text) < 5))
    => score = 0

\* C2 witness: a degenerate input (a short text with keywords and a heavy
\* topic) was scored.
C2_Witness ==
  /\ Scored /\ score = 0
  /\ Len(keywords) > 0 /\ TextLengthOf(text) < 20 /\ WordCountOf(text) >= 5
  /\ \E i \in 1..Len(topics) : DLt(Num(1), topics[i].w)

RawIsHundred ==
  /\ Scored
  /\ ~degenerate(Len(keywords), TextLengthOf(text), WordCountOf(text))
  /\ rawScore(Len(keywords), TopicScores(topics), TextLengthOf(text),
              WordCountOf(text)) = Num(100)

\* C3 as claimed: a raw score of exactly 100 is returned as 89.
C3_RawHundredIs89 == RawIsHundred => score = 89

\* C3 amended: a raw score of exactly 100 is returned as 90 (85 + 15 * 0.3 is
\* 89.5, which Math.round takes up), never as 100.
C3_RawHundredIs90 == RawIsHundred => score = 90

\* C3 witness: an input whose raw score is exactly 100 was scored.
C3_Witness == RawIsHundred /\ score = 90

\* C4: with the text and the topics fixed, replacing the keyword map by one
\* with at least as many keys, whose density (keys per 100 words) is at most
\* 20, never lowers the score.
C4_MonotoneInKeywordCount ==
  [][(Scored /\ Scored' /\ text' = text /\ topics' = topics
        /\ Len(keywords) <= Len(keywords')
        /\ Len(keywords') * 100 <= 20 * WordCountOf(text))
      => score <= score']_vars

\* C4 witness: a score above 0 that a larger keyword map, within the density
\* cap, produced.
C4_Witness ==
  /\ Scored /\ score > 50 /\ Len(keywords) = 5
  /\ Len(keywords) * 100 <= 20 * WordCountOf(text)

(***************************************************************************)
(* The keyword inserter on its own: the inputs are drawn, insertKeyword is *)
(* applied, and it is applied again to its own result.                     *)
(***************************************************************************)
InitInsert ==
  /\ pc = "start"
  /\ text \in InsertTexts
  /\ keyword \in InsertKeywords
  /\ keywords = <<>> /\ topics = <<>>
  /\ result = <<>> /\ result2 = <<>>
  /\ score = 0 /\ meaningful = FALSE
  /\ Idle

Insert ==
  /\ pc = "start"
  /\ result' = insertKeyword(text, keyword)
  /\ pc' = "once"
  /\ UNCHANGED <<text, keyword, keywords, topics, result2, score, meaningful,
                 body, apiKey, data, calls, response>>

InsertAgain ==
  /\ pc = "once"
  /\ result2' = insertKeyword(result, keyword)
  /\ pc' = "twice"
  /\ UNCHANGED <<text, keyword, keywords, topics, result, score, meaningful,
                 body, apiKey, data, calls, response>>

NextInsert == Insert \/ InsertAgain
SpecInsert == InitInsert /\ [][NextInsert]_vars

(***************************************************************************)
(* Properties of insertKeyword.                                            *)
(***************************************************************************)
HasDot(s) == \E i \in 1..Len(s) : s[i] = "."
\* The index of the first '.' of s, Len(s)+1 if it has none.
FirstDot(s) ==
  IF HasDot(s)
  THEN CHOOSE i \in 1..Len(s) : s[i] = "." /\ \A j \in 1..Len(s) : s[j] = "." => i <= j
  ELSE Len(s) + 1

\* C5: insertKeyword's result always contains the keyword, and inserting the
\* same keyword into the result returns the result unchanged.
C5_Idempotent ==
  /\ pc \in {"once", "twice"} => includes(result, keyword)
  /\ pc = "twice" => result2 = result

\* C5 witness: the keyword was really inserted by the first call (before a
\* '.'), and the second call has returned.
C5_Witness ==
  /\ pc = "twice" /\ ~includes(text, keyword)
  /\ HasDot(text) /\ Len(keyword) > 0 /\ result # text

\* C6: when the text does not contain the keyword, the result is the text with
\* " " + keyword inserted right before its first '.', or appended when it has
\* none; it is never keyword + ". " + text.
C6_InsertedBeforeFirstDot ==
  (pc = "once" /\ ~includes(text, keyword)) =>
    /\ result = SubSeq(text, 1, FirstDot(text) - 1) \o <<" ">> \o keyword
                  \o SubSeq(text, FirstDot(text), Len(text))
    /\ result # keyword \o <<".", " ">> \o text

\* C6 witness: one insertion before a '.' that is not the text's last
\* character.
C6_Witness ==
  /\ pc = "once" /\ ~includes(text, keyword)
  /\ HasDot(text) /\ FirstDot(text) > 1 /\ FirstDot(text) < Len(text)

SameOtherSegments(before, after) ==
  /\ Len(after) = Len(before)
  /\ \A i \in 2..Len(before) : after[i] = before[i]

\* C7 as claimed: for every keyword the text does not contain, the result
\* splits on '.' into as many segments as the text, all but the first unchanged.
C7_SegmentsPreserved ==
  (pc = "once" /\ ~includes(text, keyword)) =>
    SameOtherSegments(splitDot(text), splitDot(result))

\* C7 amended: the same, for every keyword that has no '.' in it.
C7_SegmentsPreservedNoDot ==
  (pc = "once" /\ ~includes(text, keyword) /\ ~HasDot(keyword)) =>
    SameOtherSegments(splitDot(text), splitDot(result))

\* C7 witness: an insertion of a '.'-free keyword into a text of several
\* segments, the later ones not all empty.
C7_Witness ==
  /\ pc = "once" /\ ~includes(text, keyword) /\ ~HasDot(keyword)
  /\ Len(keyword) > 0 /\ Len(splitDot(text)) >= 2
  /\ splitDot(text)[2] # <<>>

(***************************************************************************)
(* The content filter on its own: the inputs are drawn and                 *)
(* isMeaningfulContent is applied.                                         *)
(***************************************************************************)
RECURSIVE joinSpace(_)
joinSpace(ws) ==
  IF Len(ws) = 0 THEN <<>>
  ELSE IF Len(ws) = 1 THEN ws[1]
  ELSE ws[1] \o <<" ">> \o joinSpace(Tail(ws))

\* rep times the word "séo", in alternating case, then m different words.
WordList(rep, m) ==
  [i \in 1..(rep + m) |->
     IF i <= rep THEN (IF i % 2 = 0 THEN <<"S", "É", "O">> ELSE <<"s", "é", "o">>)
     ELSE <<"k", LowerLetters[i - rep]>>]

FilterPrefixes ==
  { <<>>,
    <<"\r", NoBreakSpace>>,
    <<"L", "o", "r", "e", "m", " ", "I", "P", "S", "U", "M", " ">>,
    <<"l", "o", "r", "e", "m", " ", " ", "i", "p", "s", "u", "m", " ">>,
    <<"S", "a", "m", "p", "l", "e", " ", "t", "e", "x", "t", " ">>,
    <<"x", "P", "l", "a", "c", "e", "H", "o", "l", "d", "e", "r", "x", " ">> }

FilterTexts ==
  {prefix \o joinSpace(WordList(rep, m)) :
     prefix \in FilterPrefixes, rep \in 0..MaxRepeats, m \in 0..MaxDistinct}

\* The keyword maps made of some of the first four keys of the pool.
FilterKeywordMaps ==
  {LET chosen(e) == \E i \in picked : KeywordPool[i] = e
   IN SelectSeq(KeywordPool, chosen) : picked \in SUBSET (1..4)}

InitFilter ==
  /\ pc = "start"
  /\ text \in FilterTexts
  /\ keywords \in FilterKeywordMaps
  /\ topics = <<>> /\ keyword = <<>>
  /\ result = <<>> /\ result2 = <<>>
  /\ score = 0 /\ meaningful = FALSE
  /\ Idle

Filter ==
  /\ pc = "start"
  /\ meaningful' = isMeaningfulContent(text, keywords)
  /\ pc' = "filtered"
  /\ UNCHANGED <<text, keyword, keywords, topics, result, result2, score,
                 body, apiKey, data, calls, response>>

NextFilter == Filter
SpecFilter == InitFilter /\ [][NextFilter]_vars

(***************************************************************************)
(* Properties of isMeaningfulContent.                                      *)
(***************************************************************************)
Lowered(s) == toLowerCase(s)
IsPlaceholderText(t) ==
  \E phrase \in {LoremIpsum, SampleText, Placeholder} : includes(Lowered(t), phrase)
IsTooShort(t) == Len(trim(t)) < 10
\* unique tokens / tokens < 0.5, with more than 10 tokens.
IsTooRepetitive(t) ==
  LET tokens == splitWs(Lowered(t))
      unique == {tokens[i] : i \in DOMAIN tokens}
  IN Len(tokens) > 10 /\ 2 * Cardinality(unique) < Len(tokens)
KeptKeywords(kws) ==
  {kws[i].k : i \in DOMAIN kws} \
    ({k \in {kws[i].k : i \in DOMAIN kws} : Lowered(k) \in commonWords}
       \cup {k \in {kws[i].k : i \in DOMAIN kws} : Len(k) <= 2}
       \cup {k \in {kws[i].k : i \in DOMAIN kws} : allDigits(k)})

\* C10: isMeaningfulContent returns false exactly when the lower-cased text
\* holds a placeholder phrase, or the trimmed text is shorter than 10, or the
\* text is too repetitive (unique/total tokens < 0.5 with more than 10
\* tokens), or no keyword is left once stop words, keywords of length <= 2
\* and numbers are removed; otherwise it returns true.
C10_FalseExactlyWhen ==
  pc = "filtered" =>
    (meaningful = FALSE <=>
       (IsPlaceholderText(text) \/ IsTooShort(text) \/ IsTooRepetitive(text)
          \/ KeptKeywords(keywords) = {}))

\* C10 witnesses: a text rejected for repetition alone, and (in another state)
\* texts accepted; here the first.
C10_Witness ==
  /\ pc = "filtered" /\ meaningful = FALSE
  /\ IsTooRepetitive(text) /\ ~IsPlaceholderText(text) /\ ~IsTooShort(text)
  /\ KeptKeywords(keywords) # {} /\ Len(keywords) >= 2

(***************************************************************************)
(* The request handler POST (lines 288-374).  A body is [json, text,       *)
(* insertKeyword]: json is whether req.json() gave an object, and a field  *)
(* is absent, null, a boolean, an integer, a string, or an object that has *)
(* or has not a property "toString" of its own.  The service's reply is a  *)
(* thrown failure or [result_code, keyword, topic], a map being absent or  *)
(* given.                                                                  *)
(***************************************************************************)
Absent == [tag |-> "absent"]
Null == [tag |-> "null"]
Bool(v) == [tag |-> "boolean", v |-> v]
Str(v) == [tag |-> "string", v |-> v]
Number(v) == [tag |-> "number", v |-> v]
Object(ownToString) == [tag |-> "object", v |-> ownToString]

Digits == <<"0", "1", "2", "3", "4", "5", "6", "7", "8", "9">>

\* Number.prototype.toString of an integer.
RECURSIVE NumberToString(_)
NumberToString(k) ==
  IF k < 0 THEN <<"-">> \o NumberToString(-k)
  ELSE IF k < 10 THEN <<Digits[k + 1]>>
  ELSE NumberToString(k \div 10) \o <<Digits[(k % 10) + 1]>>

\* Lines 2 and 8: the conversion of the keyword to a string throws a
\* TypeError for an object whose own "toString" (a value of JSON, so not a
\* function) hides Object.prototype.toString.
ToStringThrows(field) == IF field.tag = "object" THEN field.v ELSE FALSE

\* Lines 2 and 8: the string that text.includes(keyword) and `${keyword}`
\* convert the keyword to.
StringOf(field) ==
  IF field.tag = "string" THEN field.v
  ELSE IF field.tag = "number" THEN NumberToString(field.v)
  ELSE IF field.tag = "boolean"
    THEN (IF field.v THEN <<"t", "r", "u", "e">> ELSE <<"f", "a", "l", "s", "e">>)
  ELSE IF field.tag = "null" THEN <<"n", "u", "l", "l">>
  ELSE IF field.tag = "absent" THEN <<"u", "n", "d", "e", "f", "i", "n", "e", "d">>
  ELSE <<"[", "o", "b", "j", "e", "c", "t", " ", "O", "b", "j", "e", "c", "t", "]">>

\* Line 293: !text || typeof text !== "string" || !text.trim().
invalidText(field) ==
  IF field.tag # "string" THEN TRUE
  ELSE IF Len(field.v) = 0 THEN TRUE
  ELSE Len(trim(field.v)) = 0

\* Line 299 reading a field the body never has.
truthy_NeverSet(field) == FALSE

\* Line 299: the truthiness of keywordToInsert.
truthy(field) ==
  IF field.tag = "string" THEN Len(field.v) > 0
  ELSE IF field.tag = "number" THEN field.v # 0
  ELSE IF field.tag = "boolean" THEN field.v
  ELSE field.tag = "object"

\* Lines 331-332: data.keyword || {}.
orEmpty(field) == IF field.tag = "map" THEN field.v ELSE <<>>

\* Lines 344-348: sort((a, b) => b[1] - a[1]), stable, descending weights.
RECURSIVE sortEntries(_)
RECURSIVE insertEntry(_, _)
insertEntry(x, sorted) ==
  IF Len(sorted) = 0 THEN <<x>>
  ELSE IF DLt(x.w, Head(sorted).w) THEN <<Head(sorted)>> \o insertEntry(x, Tail(sorted))
  ELSE <<x>> \o sorted
sortEntries(es) ==
  IF Len(es) = 0 THEN <<>> ELSE insertEntry(Head(es), sortEntries(Tail(es)))

\* Lines 354-358.
scoreCategory(s) ==
  IF s >= 75 THEN "high"
  ELSE IF s >= 50 THEN "medium"
  ELSE IF s >= 25 THEN "low"
  ELSE "very-low"

ErrorResponse(status, message) ==
  [kind |-> "error", status |-> status, error |-> message]

\* Lines 335-341.
RejectedResponse ==
  [kind |-> "analysis", status |-> 200, keywords |-> <<>>, score |-> 0,
   scoreCategory |-> "low", topic |-> "No meaningful content",
   message |-> "Text seems to be placeholder or lacks SEO value."]

\* Lines 344-369.
ScoredResponse(kws, tp, trimmedText, s) ==
  LET keywordArray == Keys(sortEntries(kws))
      sortedTopics == sortEntries(tp)
  IN [kind |-> "analysis", status |-> 200,
      keywords |-> keywordArray,
      score |-> s,
      scoreCategory |-> scoreCategory(s),
      topic |-> IF Len(sortedTopics) > 0 THEN sortedTopics[1].k ELSE "general",
      topicScore |-> IF Len(sortedTopics) > 0 THEN sortedTopics[1].w ELSE Zero,
      totalKeywords |-> Len(keywordArray),
      textLength |-> Len(trimmedText),
      wordCount |-> Len(splitWs(trimmedText))]

HandlerTexts ==
  { <<>>,
    <<" ", "\t">>,
    <<"\r">>,
    <<" ">> \o joinSpace(WordList(2, 4)) \o <<"\r", "\n">>,
    <<NoBreakSpace, "a", ".", "b", "7", "\n">>,
    WordText(5, 4, 0, TRUE),
    <<"L", "o", "r", "e", "m", " ", "I", "p", "s", "u", "m", " ">>
      \o joinSpace(WordList(1, 4)),
    joinSpace(WordList(8, 3)) }

HandlerKeywords == { <<>>, <<"k", "b">>, <<"x", ".", "y">> }

Bodies ==
  {NoBody} \cup
  {[json |-> TRUE, text |-> t, insertKeyword |-> k] :
     t \in {Absent, Null, Number(7)} \cup {Str(v) : v \in HandlerTexts},
     k \in {Absent, Null, Bool(FALSE), Bool(TRUE), Number(0), Number(7), Number(-12),
            Object(FALSE), Object(TRUE)}
            \cup {Str(v) : v \in HandlerKeywords}}

Map(v) == [tag |-> "map", v |-> v]
Replies ==
  {[result_code |-> code, keyword |-> k, topic |-> tp] :
     code \in {"200", "404"},
     k \in {Absent, Map(SubSeq(KeywordPool, 1, 3)), Map(SubSeq(KeywordPool, 4, 4)),
            Map(SubSeq(KeywordPool, 3, 7))},
     tp \in {Absent} \cup {Map(m) : m \in TopicMaps}}

Init ==
  /\ pc = "received"
  /\ body \in Bodies
  /\ apiKey \in BOOLEAN
  /\ data = [tag |-> "none"]
  /\ calls = <<>>
  /\ response = [kind |-> "none"]
  /\ text = <<>> /\ keyword = <<>> /\ keywords = <<>> /\ topics = <<>>
  /\ result = <<>> /\ result2 = <<>> /\ score = 0 /\ meaningful = FALSE

\* Lines 290-291 and 370-373: req.json() or the destructuring throws.
POST_BadJson ==
  /\ pc = "received" /\ ~body.json
  /\ response' = ErrorResponse(500, "Unexpected server error.")
  /\ pc' = "responded"
  /\ UNCHANGED <<text, keyword, keywords, topics, result, result2, score,
                 meaningful, body, apiKey, data, calls>>

\* Lines 293-295.
POST_InvalidText ==
  /\ pc = "received" /\ body.json /\ invalidText(body.text)
  /\ response' = ErrorResponse(400, "Please enter valid text.")
  /\ pc' = "responded"
  /\ UNCHANGED <<text, keyword, keywords, topics, result, result2, score,
                 meaningful, body, apiKey, data, calls>>

\* Lines 297-302: the keyword is inserted.
POST_Insert ==
  /\ pc = "received" /\ body.json /\ ~invalidText(body.text)
  /\ truthy(body.insertKeyword)
  /\ ~ToStringThrows(body.insertKeyword)
  /\ text' = trim(body.text.v)
  /\ keyword' = StringOf(body.insertKeyword)
  /\ result' = insertKeyword(text', keyword')
  /\ calls' = Append(calls, "insertKeyword")
  /\ response' = [kind |-> "updated", status |-> 200, updatedText |-> result']
  /\ pc' = "responded"
  /\ UNCHANGED <<keywords, topics, result2, score, meaningful, body, apiKey, data>>

\* Lines 297-306: insertKeyword throws, and the inner catch answers.
POST_InsertFails ==
  /\ pc = "received" /\ body.json /\ ~invalidText(body.text)
  /\ truthy(body.insertKeyword)
  /\ ToStringThrows(body.insertKeyword)
  /\ text' = trim(body.text.v)
  /\ calls' = Append(calls, "insertKeyword")
  /\ response' = ErrorResponse(500, "Keyword insertion failed.")
  /\ pc' = "responded"
  /\ UNCHANGED <<keyword, keywords, topics, result, result2, score, meaningful,
                 body, apiKey, data>>

\* Lines 309-312.
POST_MissingKey ==
  /\ pc = "received" /\ body.json /\ ~invalidText(body.text)
  /\ ~truthy(body.insertKeyword)
  /\ ~apiKey
  /\ text' = trim(body.text.v)
  /\ response' = ErrorResponse(500, "Missing Twinword API key.")
  /\ pc' = "responded"
  /\ UNCHANGED <<keyword, keywords, topics, result, result2, score, meaningful,
                 body, apiKey, data, calls>>

\* Lines 314-322: the request to the extraction service is sent.
POST_Fetch ==
  /\ pc = "received" /\ body.json /\ ~invalidText(body.text)
  /\ ~truthy(body.insertKeyword)
  /\ apiKey
  /\ text' = trim(body.text.v)
  /\ calls' = Append(calls, "fetch")
  /\ pc' = "fetching"
  /\ UNCHANGED <<keyword, keywords, topics, result, result2, score, meaningful,
                 body, apiKey, data, response>>

\* Lines 315-324 and 370-373: fetch or twinRes.json() throws.
POST_ServiceThrows ==
  /\ pc = "fetching"
  /\ data' = [tag |-> "thrown"]
  /\ response' = ErrorResponse(500, "Unexpected server error.")
  /\ pc' = "responded"
  /\ UNCHANGED <<text, keyword, keywords, topics, result, result2, score,
                 meaningful, body, apiKey, calls>>

\* Lines 324-329.
POST_TopicNotFound ==
  /\ pc = "fetching"
  /\ \E reply \in Replies :
       /\ reply.result_code # "200"
       /\ data' = reply
  /\ response' = ErrorResponse(500, "Topic not found or irrelevant.")
  /\ pc' = "responded"
  /\ UNCHANGED <<text, keyword, keywords, topics, result, result2, score,
                 meaningful, body, apiKey, calls>>

\* Lines 324-342.
POST_NotMeaningful ==
  /\ pc = "fetching"
  /\ \E reply \in Replies :
       /\ reply.result_code = "200"
       /\ data' = reply
       /\ keywords' = orEmpty(reply.keyword)
       /\ topics' = orEmpty(reply.topic)
  /\ ~isMeaningfulContent(text, keywords')
  /\ meaningful' = FALSE
  /\ calls' = Append(calls, "isMeaningfulContent")
  /\ response' = RejectedResponse
  /\ pc' = "responded"
  /\ UNCHANGED <<text, keyword, result, result2, score, body, apiKey>>

\* Lines 324-369.
POST_Scored ==
  /\ pc = "fetching"
  /\ \E reply \in Replies :
       /\ reply.result_code = "200"
       /\ data' = reply
       /\ keywords' = orEmpty(reply.keyword)
       /\ topics' = orEmpty(reply.topic)
  /\ isMeaningfulContent(text, keywords')
  /\ meaningful' = TRUE
  /\ score' = calculateScore(keywords', topics', text)
  /\ calls' = calls \o <<"isMeaningfulContent", "calculateScore">>
  /\ response' = ScoredResponse(keywords', topics', text, score')
  /\ pc' = "responded"
  /\ UNCHANGED <<text, keyword, result, result2, body, apiKey>>

Next ==
  \/ POST_BadJson
  \/ POST_InvalidText
  \/ POST_Insert
  \/ POST_InsertFails
  \/ POST_MissingKey
  \/ POST_Fetch
  \/ POST_ServiceThrows
  \/ POST_TopicNotFound
  \/ POST_NotMeaningful
  \/ POST_Scored

Spec == Init /\ [][Next]_vars

(***************************************************************************)
(* Properties of the request handler.                                      *)
(***************************************************************************)
Band(s) ==
  CASE s >= 75 -> "high"
    [] s >= 50 /\ s < 75 -> "medium"
    [] s >= 25 /\ s < 50 -> "low"
    [] OTHER -> "very-low"

\* C8: every response that carries a score carries the scoreCategory that is
\* the banding of that score, whether the filter accepted or rejected.
C8_CategoryIsBanding ==
  (pc = "responded" /\ response.kind = "analysis") =>
    response.scoreCategory = Band(response.score)

ValidText == body.json /\ ~invalidText(body.text)
InsertAnswered ==
  /\ pc = "responded"
  /\ response.kind = "updated"
  /\ response.updatedText = insertKeyword(trim(body.text.v), StringOf(body.insertKeyword))
  /\ calls = <<"insertKeyword">>

\* C9 as claimed: with a non-blank string text and an insertKeyword field
\* present, the handler answers { updatedText } = insertKeyword(trimmed text,
\* keyword) and calls neither the service, the filter nor the calculator.
C9_InsertWhenPresent ==
  (pc # "received" /\ ValidText /\ body.insertKeyword.tag # "absent")
    => InsertAnswered

\* C9 amended: the same, when the insertKeyword field is a non-empty string.
C9_InsertWhenNonEmpty ==
  (pc # "received" /\ ValidText /\ body.insertKeyword.tag = "string"
     /\ Len(body.insertKeyword.v) > 0)
    => InsertAnswered

\* C9 witness: an insertion request answered, the text trimmed and the keyword
\* put before its '.'.
C9_Witness ==
  /\ InsertAnswered
  /\ body.insertKeyword.tag = "string" /\ Len(body.insertKeyword.v) > 0
  /\ body.text.v # trim(body.text.v)
  /\ HasDot(body.text.v)
  /\ response.updatedText # trim(body.text.v)

====
